---- MODULE Spec2Model ----
(***************************************************************************)
(* Model of src/main.py: the pydantic (v1) model Book with its pre root    *)
(* validator, its isbn_10 field validator and its immutable Config, and    *)
(* main(), which builds one Book per record of the parsed input and prints *)
(* two projections of the first one.                                       *)
(*                                                                         *)
(* Text is a sequence of characters; a character is a one-element name     *)
(* ("0".."9", "X", "x", "-", "a", and the non-ASCII digits "ar7", ARABIC-   *)
(* INDIC DIGIT SEVEN, and "sup2", SUPERSCRIPT TWO).                        *)
(***************************************************************************)
EXTENDS Integers, Sequences, FiniteSets, TLC

VARIABLES data, pc, acc, books, exc, call, stdout

vars == <<data, pc, acc, books, exc, call, stdout>>

(***************************************************************************)
(* Values of the parsed input (json.load) and of a Book's fields.          *)
(***************************************************************************)
\* the key is not in the mapping
Missing == [t |-> "missing", s |-> <<>>, n |-> 0]
\* JSON null / Python None
None == [t |-> "None", s |-> <<>>, n |-> 0]
\* a JSON array: convertible neither to str nor to float
List == [t |-> "list", s |-> <<>>, n |-> 0]
Str(s) == [t |-> "str", s |-> s, n |-> 0]
\* a JSON number (int)
Num(n) == [t |-> "num", s |-> <<>>, n |-> n]
\* a Python float
Float(n) == [t |-> "float", s |-> <<>>, n |-> n]

\* class Book: the declared fields, in declaration order
Fields == <<"title", "author", "publisher", "price", "isbn_10", "isbn_13", "subtitle">>
FieldSet == {Fields[i] : i \in 1..Len(Fields)}
\* the fields declared Optional[...]: not required, None allowed
OptionalFields == {"isbn_10", "isbn_13", "subtitle"}
\* the fields declared str / Optional[str]; price is declared float
StrFields == FieldSet \ {"price"}

(***************************************************************************)
(* Exceptions.                                                             *)
(***************************************************************************)
NoExc == [type |-> "none", value |-> None, message |-> "", errors |-> {}]
\* class ISBN10FormatError(value, message)
ISBN10FormatError(value, message) ==
    [type |-> "ISBN10FormatError", value |-> value, message |-> message, errors |-> {}]
\* class ISBNMissingError(title, message)
ISBNMissingError(title, message) ==
    [type |-> "ISBNMissingError", value |-> title, message |-> message, errors |-> {}]
\* a builtin exception carrying no modelled payload
Builtin(type) == [type |-> type, value |-> None, message |-> "", errors |-> {}]
\* pydantic.ValidationError with its list of (loc, error type)
ValidationError(errors) ==
    [type |-> "ValidationError", value |-> None, message |-> "", errors |-> errors]

(***************************************************************************)
(* Characters.                                                             *)
(***************************************************************************)
AsciiDigits == <<"0", "1", "2", "3", "4", "5", "6", "7", "8", "9">>
AsciiDigitSet == {AsciiDigits[i] : i \in 1..Len(AsciiDigits)}
AsciiValue(c) == (CHOOSE i \in 1..Len(AsciiDigits) : AsciiDigits[i] = c) - 1

\* str.isdigit(): true of every Unicode character with a digit property,
\* the ASCII digits, ARABIC-INDIC DIGIT SEVEN and SUPERSCRIPT TWO among them
isdigit(c) == c \in AsciiDigitSet \cup {"ar7", "sup2"}

\* int(char) of a one-character string: the value of a decimal digit
\* (Unicode Nd), ValueError for anything else, SUPERSCRIPT TWO included
int(c) ==
    IF c \in AsciiDigitSet THEN [ok |-> TRUE, v |-> AsciiValue(c)]
    ELSE IF c = "ar7" THEN [ok |-> TRUE, v |-> 7]
    ELSE [ok |-> FALSE, v |-> 0]

\* "char in 'Xx'" for a single character
InXx(c) == c \in {"X", "x"}

(***************************************************************************)
(* Book.isbn_10_validator                                                  *)
(***************************************************************************)
\* len(chars) != 10
IsbnLength == 10
\* weighted_sum % 11
IsbnModulus == 11

\* chars = [char for char in value if char.isdigit() or char in "Xx"]
FilterChars(text) == SelectSeq(text, LAMBDA c : isdigit(c) \/ InXx(c))

\* def char_to_int(char): 10 for X/x, else int(char) (which may raise)
char_to_int(c) == IF InXx(c) THEN [ok |-> TRUE, v |-> 10] ELSE int(c)

\* sum((10 - i) * char_to_int(x) for i, x in enumerate(chars)); i is 0-based,
\* the k-th character (1-based) has weight 10 - (k - 1)
RECURSIVE SumUpTo(_, _)
SumUpTo(chars, k) ==
    IF k = 0 THEN 0
    ELSE SumUpTo(chars, k - 1) + (10 - (k - 1)) * char_to_int(chars[k]).v
weighted_sum(chars) == SumUpTo(chars, Len(chars))

MsgLength == "ISBN-10 must be 10 digits."
MsgChecksum == "ISBN-10 weighted sum must be divisible by 11."

\* the validator's result: the value it returns, or the exception it raises
Returned(v) == [exc |-> NoExc, v |-> v]
Raised(e, v) == [exc |-> e, v |-> v]

\* isbn_10_validator(cls, value): value is a str, or None when the input
\* mapping carries isbn_10: null (iterating None raises TypeError)
isbn_10_validator(value) ==
    IF value.t # "str" THEN Raised(Builtin("TypeError"), value)
    ELSE LET chars == FilterChars(value.s) IN
         IF Len(chars) # IsbnLength
         THEN Raised(ISBN10FormatError(value, MsgLength), value)
         ELSE IF \E k \in 1..Len(chars) : ~char_to_int(chars[k]).ok
         THEN Raised(Builtin("ValueError"), value)
         ELSE IF weighted_sum(chars) % IsbnModulus # 0
         THEN Raised(ISBN10FormatError(value, MsgChecksum), value)
         ELSE Returned(value)

(***************************************************************************)
(* Type conversion of the declared field types (pydantic v1).              *)
(***************************************************************************)
\* str(n) of a non-negative int
RECURSIVE NatToText(_)
NatToText(n) ==
    IF n < 10 THEN <<AsciiDigits[n + 1]>>
    ELSE NatToText(n \div 10) \o <<AsciiDigits[(n % 10) + 1]>>

\* the value of a text of decimal digits (Unicode Nd), most significant first
RECURSIVE DecimalValue(_)
DecimalValue(text) ==
    IF text = <<>> THEN 0
    ELSE DecimalValue(SubSeq(text, 1, Len(text) - 1)) * 10 + int(text[Len(text)]).v

IsDecimalText(text) == text # <<>> /\ \A k \in 1..Len(text) : int(text[k]).ok

\* field type str: a str is kept, a number is converted with str(), anything
\* else is a type error
str_validator(v) ==
    IF v.t = "str" THEN [ok |-> TRUE, v |-> v]
    ELSE IF v.t = "num" THEN [ok |-> TRUE, v |-> Str(NatToText(v.n))]
    ELSE [ok |-> FALSE, v |-> v]

\* field type float: float(v); of a str, the number it spells (an optional
\* minus sign, then decimal digits, over the characters modelled)
float_validator(v) ==
    IF v.t = "num" THEN [ok |-> TRUE, v |-> Float(v.n)]
    ELSE IF v.t = "str" /\ IsDecimalText(v.s)
         THEN [ok |-> TRUE, v |-> Float(DecimalValue(v.s))]
    ELSE IF v.t = "str" /\ v.s # <<>> /\ v.s[1] = "-" /\ IsDecimalText(Tail(v.s))
         THEN [ok |-> TRUE, v |-> Float(0 - DecimalValue(Tail(v.s)))]
    ELSE [ok |-> FALSE, v |-> v]

TypeValidator(name, v) ==
    IF name \in StrFields THEN str_validator(v) ELSE float_validator(v)

(***************************************************************************)
(* Validation of one field: the outcome is the value kept, the error       *)
(* recorded for the ValidationError ("" when none), and the exception that *)
(* propagates out of the construction (NoExc when none).                   *)
(***************************************************************************)
FieldOk(v) == [v |-> v, err |-> "", exc |-> NoExc]
FieldErr(v, err) == [v |-> v, err |-> err, exc |-> NoExc]
FieldExc(v, e) == [v |-> v, err |-> "", exc |-> e]

\* a field validation that records every exception of the isbn_10 validator
\* as a validation error, as if ISBN10FormatError were a ValueError
PostValidateRecordingAll(name, v) ==
    IF name # "isbn_10" THEN FieldOk(v)
    ELSE LET r == isbn_10_validator(v) IN
         IF r.exc = NoExc THEN FieldOk(r.v) ELSE FieldErr(v, r.exc.type)

\* @pydantic.validator("isbn_10"): run after the type validator of isbn_10,
\* and on an explicit None. pydantic turns ValueError, TypeError and
\* AssertionError into a recorded error; any other exception propagates
PostValidate(name, v) ==
    IF name # "isbn_10" THEN FieldOk(v)
    ELSE LET r == isbn_10_validator(v) IN
         IF r.exc = NoExc THEN FieldOk(r.v)
         ELSE IF r.exc.type \in {"ValueError", "TypeError", "AssertionError"}
              THEN FieldErr(v, r.exc.type)
         ELSE FieldExc(v, r.exc)

ValidateField(name, raw) ==
    IF raw.t = "missing"
    THEN IF name \in OptionalFields THEN FieldOk(None)
         ELSE FieldErr(raw, "value_error.missing")
    ELSE IF raw.t = "None"
    THEN IF name \in OptionalFields THEN PostValidate(name, raw)
         ELSE FieldErr(raw, "type_error.none.not_allowed")
    ELSE LET c == TypeValidator(name, raw) IN
         IF ~c.ok THEN FieldErr(raw, "type_error")
         ELSE PostValidate(name, c.v)

(***************************************************************************)
(* Book: root validator, fields in declaration order, construction.        *)
(***************************************************************************)
\* @pydantic.root_validator(pre=True): values is the raw mapping;
\* values["title"] raises KeyError when the mapping has no title
check_isbn10_and_isbn13(values) ==
    IF values["isbn_10"].t = "missing" /\ values["isbn_13"].t = "missing"
    THEN IF values["title"].t = "missing" THEN Builtin("KeyError")
         ELSE ISBNMissingError(values["title"], "Must have at least one ISBN.")
    ELSE NoExc

\* the fields validated one after the other; an exception that is not a
\* validation error stops the loop at once, recorded errors do not
RECURSIVE ValidateFrom(_, _, _, _)
ValidateFrom(values, k, done, errors) ==
    IF k > Len(Fields) THEN [exc |-> NoExc, values |-> done, errors |-> errors]
    ELSE LET name == Fields[k]
             r == ValidateField(name, values[name])
         IN  IF r.exc # NoExc THEN [exc |-> r.exc, values |-> done, errors |-> errors]
             ELSE IF r.err # ""
                  THEN ValidateFrom(values, k + 1, done, errors \cup {<<name, r.err>>})
             ELSE ValidateFrom(values, k + 1, [done EXCEPT ![name] = r.v], errors)

NoBook == [f \in FieldSet |-> Missing]

validate_model(values) == ValidateFrom(values, 1, NoBook, {})

\* Book(**item): the Book built, or the exception raised
Book(item) ==
    LET pre == check_isbn10_and_isbn13(item) IN
    IF pre # NoExc THEN [exc |-> pre, book |-> NoBook]
    ELSE LET m == validate_model(item) IN
         IF m.exc # NoExc THEN [exc |-> m.exc, book |-> NoBook]
         ELSE IF m.errors # {} THEN [exc |-> ValidationError(m.errors), book |-> NoBook]
         ELSE [exc |-> NoExc, book |-> m.values]

\* a Config that allows mutation
allow_mutation_on == TRUE

\* class Config: allow_mutation = False
allow_mutation == FALSE

\* Book.__setattr__(name, value): the Book after the statement and the
\* exception it raises
setattr(book, name, value) ==
    IF name \notin FieldSet THEN [book |-> book, exc |-> Builtin("ValueError")]
    ELSE IF ~allow_mutation THEN [book |-> book, exc |-> Builtin("TypeError")]
    ELSE [book |-> [book EXCEPT ![name] = value], exc |-> NoExc]

\* a projection that applies include but not exclude
dict_keeping_excluded(book, include, exclude) ==
    LET keys0 == DOMAIN book
        keys1 == IF include = {"<not given>"} THEN keys0 ELSE keys0 \cap include
    IN  [k \in keys1 |-> book[k]]

\* Book.dict(include=..., exclude=...): NoSet stands for an argument not given
NoSet == {"<not given>"}
dict(book, include, exclude) ==
    LET keys0 == DOMAIN book
        keys1 == IF include = NoSet THEN keys0 ELSE keys0 \cap include
        keys2 == IF exclude = NoSet THEN keys1 ELSE keys1 \ exclude
    IN  [k \in keys2 |-> book[k]]

(***************************************************************************)
(* main(): the list comprehension over the parsed records, then the three  *)
(* prints about books[0].                                                  *)
(***************************************************************************)
NoCall == [op |-> "none", i |-> 0, name |-> "", value |-> None,
           include |-> NoSet, exclude |-> NoSet]
NoOutput == [kind |-> "none", author |-> None, mapping |-> <<>>]

\* an iteration that puts the new Book in front of the list
ComprehensionStepPrepending ==
    /\ pc = "comprehension"
    /\ Len(acc) < Len(data)
    /\ LET r == Book(data[Len(acc) + 1]) IN
       IF r.exc # NoExc
       THEN /\ pc' = "raised"
            /\ exc' = r.exc
            /\ acc' = acc
       ELSE /\ acc' = <<r.book>> \o acc
            /\ UNCHANGED <<pc, exc>>
    /\ UNCHANGED <<data, books, call, stdout>>

\* one iteration of [Book(**item) for item in data]: the next Book is
\* appended, or the exception ends main()
ComprehensionStep ==
    /\ pc = "comprehension"
    /\ Len(acc) < Len(data)
    /\ LET r == Book(data[Len(acc) + 1]) IN
       IF r.exc # NoExc
       THEN /\ pc' = "raised"
            /\ exc' = r.exc
            /\ acc' = acc
       ELSE /\ acc' = Append(acc, r.book)
            /\ UNCHANGED <<pc, exc>>
    /\ UNCHANGED <<data, books, call, stdout>>

\* books: List[Book] = [...]: the finished list is bound to books
ComprehensionEnd ==
    /\ pc = "comprehension"
    /\ Len(acc) = Len(data)
    /\ books' = acc
    /\ pc' = "print_author"
    /\ UNCHANGED <<data, acc, exc, call, stdout>>

\* print(books[0].author): IndexError on an empty list
PrintAuthor ==
    /\ pc = "print_author"
    /\ IF books = <<>>
       THEN /\ pc' = "raised"
            /\ exc' = Builtin("IndexError")
            /\ stdout' = stdout
       ELSE /\ pc' = "print_include"
            /\ stdout' = [kind |-> "author", author |-> books[1]["author"], mapping |-> <<>>]
            /\ exc' = exc
    /\ UNCHANGED <<data, acc, books, call>>

IncludeSet == {"title", "author"}

\* print(books[0].dict(include={"title", "author"}))
PrintInclude ==
    /\ pc = "print_include"
    /\ stdout' = [kind |-> "dict", author |-> None,
                  mapping |-> dict(books[1], IncludeSet, NoSet)]
    /\ call' = [NoCall EXCEPT !.op = "dict", !.i = 1, !.include = IncludeSet]
    /\ pc' = "print_exclude"
    /\ UNCHANGED <<data, acc, books, exc>>

\* print(books[0].dict(exclude={"title", "author"}))
PrintExclude ==
    /\ pc = "print_exclude"
    /\ stdout' = [kind |-> "dict", author |-> None,
                  mapping |-> dict(books[1], NoSet, IncludeSet)]
    /\ call' = [NoCall EXCEPT !.op = "dict", !.i = 1, !.exclude = IncludeSet]
    /\ pc' = "done"
    /\ UNCHANGED <<data, acc, books, exc>>

NextMain ==
    \/ ComprehensionStep
    \/ ComprehensionEnd
    \/ PrintAuthor
    \/ PrintInclude
    \/ PrintExclude

(***************************************************************************)
(* Uses of the constructed Books by a caller: an attribute assignment on   *)
(* any of them, and the projections of books[0] with any set of names.     *)
(***************************************************************************)
Names == FieldSet \cup {"unknown"}
AssignedValues == {None, Str(<<"Z">>)}

\* books[i].name = value
SetAttr(i, name, value) ==
    /\ pc = "done"
    /\ i \in 1..Len(books)
    /\ LET r == setattr(books[i], name, value) IN
       /\ books' = [books EXCEPT ![i] = r.book]
       /\ exc' = r.exc
    /\ call' = [NoCall EXCEPT !.op = "setattr", !.i = i, !.name = name, !.value = value]
    /\ UNCHANGED <<data, pc, acc, stdout>>

\* print(books[0].dict(include=S)) or print(books[0].dict(exclude=S))
Dict(include, exclude) ==
    /\ pc = "done"
    /\ books # <<>>
    /\ stdout' = [kind |-> "dict", author |-> None,
                  mapping |-> dict(books[1], include, exclude)]
    /\ call' = [NoCall EXCEPT !.op = "dict", !.i = 1, !.include = include,
                              !.exclude = exclude]
    /\ exc' = NoExc
    /\ UNCHANGED <<data, pc, acc, books>>

\* main() and a caller that assigns to attributes of the Books
Next ==
    \/ NextMain
    \/ \E i \in 1..Len(books), name \in Names, value \in AssignedValues :
          SetAttr(i, name, value)

\* main() and a caller that asks for projections of books[0]
NextDict ==
    \/ NextMain
    \/ \E S \in SUBSET Names : Dict(S, NoSet)
    \/ \E S \in SUBSET Names : Dict(NoSet, S)

(***************************************************************************)
(* The inputs.                                                             *)
(***************************************************************************)
TextT == <<"T">>
Isbn10Good == <<"0", "4", "7", "1", "9", "5", "8", "6", "9", "7">>
Isbn10GoodX == <<"1", "5", "5", "4", "0", "4", "2", "9", "5", "X">>
Isbn10Hyphens == <<"0", "-", "4", "7", "1", "-", "9", "5", "8", "6", "9", "-", "7">>
Isbn10BadSum == <<"0", "4", "7", "1", "9", "5", "8", "6", "9", "8">>
Isbn10Short == <<"1", "2", "3", "4", "5">>
Isbn10Sup == <<"0", "4", "7", "1", "9", "5", "8", "6", "sup2", "7">>
Isbn13Text == <<"9", "7", "8", "-", "a">>

Record(title, author, publisher, price, isbn_10, isbn_13, subtitle) ==
    [title |-> title, author |-> author, publisher |-> publisher, price |-> price,
     isbn_10 |-> isbn_10, isbn_13 |-> isbn_13, subtitle |-> subtitle]

InitState(d) ==
    /\ data = d
    /\ pc = "comprehension"
    /\ acc = <<>>
    /\ books = <<>>
    /\ exc = NoExc
    /\ call = NoCall
    /\ stdout = NoOutput

\* the records of the input files of Spec
SmallRecords ==
    { Record(Str(TextT), Str(<<"A">>), Str(<<"P">>), Num(10), Str(Isbn10Good), Missing, Missing),
      Record(Str(TextT), Str(<<"B">>), Str(<<"P">>), Num(12), Missing, Str(Isbn13Text), Str(<<"S">>)),
      Record(Str(<<"U">>), Str(<<"A">>), Str(<<"P">>), Num(10), Str(Isbn10GoodX), Str(Isbn13Text), None),
      Record(Str(TextT), Str(<<"A">>), Str(<<"P">>), Num(10), Str(Isbn10BadSum), Missing, Missing),
      Record(Str(TextT), Str(<<"A">>), Str(<<"P">>), Num(10), Missing, Missing, Missing) }

MaxRecords == 2

RECURSIVE SeqsUpTo(_, _)
SeqsUpTo(S, n) ==
    IF n = 0 THEN {<<>>}
    ELSE LET shorter == SeqsUpTo(S, n - 1) IN
         shorter \cup {Append(q, x) : q \in {p \in shorter : Len(p) = n - 1}, x \in S}

Init == \E d \in SeqsUpTo(SmallRecords, MaxRecords) : InitState(d)

Spec == Init /\ [][Next]_vars

\* an input file of one record
InitDict == \E r \in SmallRecords : InitState(<<r>>)

SpecDict == InitDict /\ [][NextDict]_vars

(***************************************************************************)
(* One record of any shape: every field missing, null, well typed, ill     *)
(* typed or convertible.                                                   *)
(***************************************************************************)
TitleValues == {Missing, None, Str(TextT), Num(7), List}
AuthorValues == {Missing, Str(<<"A">>)}
PublisherValues == {Str(<<"P">>), List}
PriceValues == {Missing, Num(10), Str(<<"1", "0">>), Str(<<"a">>)}
Isbn10Values ==
    {Missing, None, List, Num(12345), Str(Isbn10Good), Str(Isbn10GoodX), Str(Isbn10Hyphens),
     Str(Isbn10BadSum), Str(Isbn10Short), Str(Isbn10Sup)}
Isbn13Values == {Missing, None, List, Str(Isbn13Text), Str(Isbn10BadSum)}
SubtitleValues == {Missing, None, List, Str(<<"S">>)}

Records ==
    { Record(t, a, p, c, i10, i13, st) :
        t \in TitleValues, a \in AuthorValues, p \in PublisherValues, c \in PriceValues,
        i10 \in Isbn10Values, i13 \in Isbn13Values, st \in SubtitleValues }

InitBook == \E r \in Records : InitState(<<r>>)

SpecBook == InitBook /\ [][NextMain]_vars

(***************************************************************************)
(* One otherwise valid record with any isbn_10 text near a known one: at   *)
(* most MaxEdits characters inserted, deleted or replaced.                 *)
(***************************************************************************)
Chars == AsciiDigitSet \cup {"X", "x", "-", "a", "ar7", "sup2"}
EditChars == {"0", "X", "x", "-", "a", "ar7", "sup2"}
MaxEdits == 1

Insert(text, k, c) == SubSeq(text, 1, k - 1) \o <<c>> \o SubSeq(text, k, Len(text))
Delete(text, k) == SubSeq(text, 1, k - 1) \o SubSeq(text, k + 1, Len(text))
Replace(text, k, c) == [text EXCEPT ![k] = c]

Edits(text) ==
    {Insert(text, k, c) : k \in 1..(Len(text) + 1), c \in EditChars}
    \cup {Delete(text, k) : k \in 1..Len(text)}
    \cup {Replace(text, k, c) : k \in 1..Len(text), c \in EditChars}

RECURSIVE Near(_, _)
Near(texts, n) ==
    IF n = 0 THEN texts
    ELSE LET nearer == Near(texts, n - 1) IN nearer \cup UNION {Edits(t) : t \in nearer}

IsbnBases == {Isbn10Good, Isbn10GoodX, Isbn10Hyphens, Isbn10BadSum, Isbn10Short, <<>>}

IsbnRecord(text) ==
    Record(Str(TextT), Str(<<"A">>), Str(<<"P">>), Num(10), Str(text), Missing, Missing)

InitIsbn == \E text \in Near(IsbnBases, MaxEdits) : InitState(<<IsbnRecord(text)>>)

SpecIsbn == InitIsbn /\ [][NextMain]_vars

(***************************************************************************)
(* Vocabulary of the properties.                                           *)
(***************************************************************************)
\* the construction of the Book of a one-record input has been attempted
Attempted == Len(data) = 1 /\ (Len(acc) = 1 \/ (pc = "raised" /\ acc = <<>>))
\* the construction of the Book of a one-record input succeeded
Constructed == Len(data) = 1 /\ Len(acc) = 1

Absent(v) == v.t \in {"missing", "None"}
IsText(v) == v.t = "str"
TextOrAbsent(v) == IsText(v) \/ Absent(v)

\* the ISBN-10 rule as the specification words it: the characters that are
\* ASCII digits or X/x, ten of them, weighted sum divisible by 11
AsciiFilter(text) == SelectSeq(text, LAMBDA c : c \in AsciiDigitSet \cup {"X", "x"})
RuleValue(c) == IF c \in {"X", "x"} THEN 10 ELSE AsciiValue(c)
RECURSIVE RuleSum(_, _)
RuleSum(c, k) == IF k = 0 THEN 0 ELSE RuleSum(c, k - 1) + (11 - k) * RuleValue(c[k])
RuleLengthOk(text) == Len(AsciiFilter(text)) = 10
RuleAccepts(text) ==
    RuleLengthOk(text) /\ RuleSum(AsciiFilter(text), 10) % 11 = 0

\* title, author and publisher are texts and price is a number
RequiredValid(r) ==
    /\ IsText(r["title"]) /\ IsText(r["author"]) /\ IsText(r["publisher"])
    /\ r["price"].t = "num"
\* some required field is missing, null or not convertible to its type
RequiredDefect(r) ==
    \E f \in FieldSet \ OptionalFields : Absent(r[f]) \/ r[f].t = "list"
       \/ (f = "price" /\ r[f] = Str(<<"a">>))

\* the Book a valid record is expected to give: the record's values, None
\* for a key not given, the price as a float
ExpectedBook(r) ==
    [f \in FieldSet |-> IF Absent(r[f]) THEN None
                        ELSE IF f = "price" THEN Float(r[f].n) ELSE r[f]]

NoIdentifier(r) ==
    \/ r["isbn_10"].t = "missing" /\ r["isbn_13"].t = "missing"
    \/ r["isbn_10"].t = "None" /\ r["isbn_13"].t = "None"

(***************************************************************************)
(* C1. A record in which neither isbn_10 nor isbn_13 is present (both keys *)
(* missing, or both null) fails with ISBNMissingError and nothing else,    *)
(* whatever its other fields are.                                          *)
(***************************************************************************)
C1_MissingIdentifier ==
    (Attempted /\ NoIdentifier(data[1])) => exc.type = "ISBNMissingError"

(***************************************************************************)
(* C2. Every Book constructed has isbn_10 or isbn_13 other than None.      *)
(***************************************************************************)
C2_AtLeastOneIsbn ==
    \A i \in 1..Len(acc) : acc[i]["isbn_10"] # None \/ acc[i]["isbn_13"] # None

\* read with "digit" as any digit character, each with its digit value
DigitChars == AsciiDigitSet \cup {"ar7", "sup2"}
DigitValue(c) ==
    IF c \in AsciiDigitSet THEN AsciiValue(c) ELSE IF c = "ar7" THEN 7 ELSE 2
DigitFilter(text) == SelectSeq(text, LAMBDA c : c \in DigitChars \cup {"X", "x"})
RECURSIVE DigitSum(_, _)
DigitSum(c, k) ==
    IF k = 0 THEN 0
    ELSE DigitSum(c, k - 1)
         + (11 - k) * (IF c[k] \in {"X", "x"} THEN 10 ELSE DigitValue(c[k]))

(***************************************************************************)
(* C3. For an otherwise valid record with an isbn_10 text v, with c the    *)
(* digits and X/x of v: if c has not ten characters the construction fails *)
(* with ISBN10FormatError(v, "ISBN-10 must be 10 digits."); if it has ten  *)
(* and the weighted sum is not divisible by 11 it fails with               *)
(* ISBN10FormatError(v, "ISBN-10 weighted sum must be divisible by 11.");  *)
(* otherwise the Book is built.                                            *)
(***************************************************************************)
C3_Isbn10Rule ==
    (Attempted /\ data[1] = IsbnRecord(data[1]["isbn_10"].s)) =>
        LET v == data[1]["isbn_10"]
            c == DigitFilter(v.s)
        IN  IF Len(c) # 10 THEN exc = ISBN10FormatError(v, MsgLength)
            ELSE IF DigitSum(c, 10) % 11 # 0 THEN exc = ISBN10FormatError(v, MsgChecksum)
            ELSE exc = NoExc /\ Constructed /\ acc[1]["isbn_10"] = v

OtherChars == Chars \ (AsciiDigitSet \cup {"X", "x"})

(***************************************************************************)
(* C4. The outcome of the isbn_10 check depends only on the ASCII digits   *)
(* and X/x of the value: inserting any other character anywhere changes    *)
(* neither the acceptance nor the error raised; an accepted value is kept  *)
(* unfiltered in the Book.                                                 *)
(***************************************************************************)
C4_OnlyFilteredCharsMatter ==
    (Attempted /\ data[1] = IsbnRecord(data[1]["isbn_10"].s)) =>
        LET v == data[1]["isbn_10"].s IN
        /\ \A k \in 1..(Len(v) + 1), c \in OtherChars :
              LET other == Book(IsbnRecord(Insert(v, k, c))).exc IN
              /\ other.type = exc.type
              /\ other.message = exc.message
        /\ Constructed => acc[1]["isbn_10"] = Str(v)

C5_Applies(r) ==
    /\ IsText(r["isbn_10"]) \/ IsText(r["isbn_13"])
    /\ RequiredValid(r)
    /\ TextOrAbsent(r["isbn_10"]) /\ TextOrAbsent(r["isbn_13"])
    /\ TextOrAbsent(r["subtitle"])
    /\ IsText(r["isbn_10"]) => RuleAccepts(r["isbn_10"].s)

(***************************************************************************)
(* C5. A record with isbn_10 or isbn_13 present, the four required fields  *)
(* present and well typed, and an isbn_10 that, if present, passes the     *)
(* ISBN-10 rule, gives a Book whose fields are the record's values; the    *)
(* isbn_10 check is skipped when isbn_10 is absent.                        *)
(***************************************************************************)
C5_ValidRecordAccepted ==
    (Attempted /\ C5_Applies(data[1])) =>
        (exc = NoExc /\ Constructed /\ acc[1] = ExpectedBook(data[1]))

C7_Applies(r) ==
    /\ RequiredValid(r)
    /\ IsText(r["isbn_13"])
    /\ TextOrAbsent(r["subtitle"])
    /\ Absent(r["isbn_10"]) \/ (IsText(r["isbn_10"]) /\ RuleAccepts(r["isbn_10"].s))

(***************************************************************************)
(* C7. isbn_13 is never format-checked: a record with valid required       *)
(* fields, an isbn_10 that is absent or valid, and any text as isbn_13 is  *)
(* accepted, and the Book keeps the isbn_13 text unchanged.                *)
(***************************************************************************)
C7_Isbn13Unchecked ==
    (Attempted /\ C7_Applies(data[1])) =>
        (exc = NoExc /\ Constructed /\ acc[1]["isbn_13"] = data[1]["isbn_13"])

(***************************************************************************)
(* C6. Once the Books are constructed, an assignment to any of the seven   *)
(* fields of any Book fails with an error and leaves every Book as it was  *)
(* constructed, after any number of such attempts.                         *)
(***************************************************************************)
C6_Immutable ==
    pc = "done" =>
        /\ books = acc
        /\ \A i \in 1..Len(books) : books[i] = Book(data[i]).book
        /\ (call.op = "setattr" /\ call.name \in FieldSet) => exc.type = "TypeError"

C6_Witness ==
    /\ pc = "done"
    /\ call.op = "setattr" /\ call.name = "isbn_13" /\ call.i = 2
    /\ call.value = Str(<<"Z">>)
    /\ exc.type = "TypeError"
    /\ books[2]["isbn_13"] = Str(Isbn13Text)

Partition(book, S, inc, exc_) ==
    /\ DOMAIN inc \cap DOMAIN exc_ = {}
    /\ DOMAIN inc \cup DOMAIN exc_ = FieldSet
    /\ DOMAIN inc = S \cap FieldSet
    /\ \A k \in DOMAIN inc : inc[k] = book[k]
    /\ \A k \in DOMAIN exc_ : exc_[k] = book[k]

(***************************************************************************)
(* C8. For a Book and any set S of names, dict(include=S) and              *)
(* dict(exclude=S) have disjoint keys, together exactly the seven declared *)
(* fields, each with the Book's value; names of S that are no field give   *)
(* no entry.                                                               *)
(***************************************************************************)
C8_Projections ==
    (pc = "done" /\ call.op = "dict") =>
        /\ call.include # NoSet =>
              Partition(books[1], call.include, stdout.mapping,
                        dict(books[1], NoSet, call.include))
        /\ call.exclude # NoSet =>
              Partition(books[1], call.exclude, dict(books[1], call.exclude, NoSet),
                        stdout.mapping)

C8_Witness ==
    /\ pc = "done" /\ call.op = "dict"
    /\ call.exclude = {"price", "isbn_10", "unknown"}
    /\ DOMAIN stdout.mapping = {"title", "author", "publisher", "isbn_13", "subtitle"}
    /\ stdout.mapping["isbn_13"] = Str(Isbn13Text)

AllValid == \A i \in 1..Len(data) : Book(data[i]).exc = NoExc

(***************************************************************************)
(* C9. When every record of the input is valid, the list built has one     *)
(* Book per record, the i-th Book being the Book of the i-th record alone. *)
(***************************************************************************)
C9_Ordering ==
    AllValid =>
        /\ Len(acc) <= Len(data)
        /\ \A i \in 1..Len(acc) : acc[i] = Book(data[i]).book
        /\ pc # "comprehension" => (Len(acc) = Len(data) /\ books = acc)
        /\ pc = "raised" => data = <<>>

C9_Witness ==
    /\ pc = "done"
    /\ Len(data) = 2 /\ Len(books) = 2
    /\ books[1]["author"] = Str(<<"B">>)
    /\ books[2]["author"] = Str(<<"A">>)
    /\ books[1] # books[2]

HasIdentifierKey(r) == r["isbn_10"].t # "missing" \/ r["isbn_13"].t # "missing"

\* the isbn_10 value, as text, has not ten digit or X/x characters, or has
\* ten that all have a value and whose weighted sum is not divisible by 11
Isbn10AsText(r) ==
    IF r["isbn_10"].t = "num" THEN NatToText(r["isbn_10"].n) ELSE r["isbn_10"].s
FailsLength(r) == Len(DigitFilter(Isbn10AsText(r))) # 10
FailsChecksum(r) ==
    LET c == DigitFilter(Isbn10AsText(r)) IN
    /\ Len(c) = 10
    /\ \A k \in 1..10 : c[k] # "sup2"
    /\ DigitSum(c, 10) % 11 # 0
FailsIsbn10Check(r) ==
    r["isbn_10"].t \in {"str", "num"} /\ (FailsLength(r) \/ FailsChecksum(r))

C10_Applies(r) == HasIdentifierKey(r) /\ RequiredDefect(r) /\ FailsIsbn10Check(r)

(***************************************************************************)
(* C10. As claimed: a record with an identifier key, a defective required  *)
(* field and an isbn_10 value that fails the length or checksum check      *)
(* fails with a ValidationError (the schema error), not with               *)
(* ISBN10FormatError.                                                      *)
(***************************************************************************)
C10_SchemaErrorFirst ==
    (Attempted /\ C10_Applies(data[1])) => exc.type = "ValidationError"

(***************************************************************************)
(* C10, amended. The presence check comes first: no record without an      *)
(* identifier key gets a ValidationError. After it, a record with a        *)
(* defective required field and an isbn_10 value that fails the length or  *)
(* checksum check fails with ISBN10FormatError carrying that value; the    *)
(* ValidationError is raised for a defective required field only when the  *)
(* isbn_10 value does not fail that check.                                 *)
(***************************************************************************)
C10_FormatErrorFirst ==
    Attempted =>
        LET r == data[1] IN
        /\ exc.type = "ValidationError" => HasIdentifierKey(r)
        /\ C10_Applies(r) =>
              exc = ISBN10FormatError(Str(Isbn10AsText(r)),
                                      IF FailsLength(r) THEN MsgLength ELSE MsgChecksum)
        /\ (HasIdentifierKey(r) /\ RequiredDefect(r) /\ ~FailsIsbn10Check(r)) =>
              exc.type = "ValidationError"

C10_Witness ==
    /\ Attempted
    /\ data[1]["title"] = Missing
    /\ data[1]["price"] = Str(<<"a">>)
    /\ data[1]["isbn_10"] = Str(Isbn10BadSum)
    /\ exc = ISBN10FormatError(Str(Isbn10BadSum), MsgChecksum)

====
